---- MODULE Spec2Model ----
(***************************************************************************)
(* Model of gitdata.py: the paginated fetch loop, the cache layer, the     *)
(* source selector of github_data and the field projector data_fields.     *)
(*                                                                         *)
(* Representation                                                          *)
(*   - a Python dict (JSON object) is a sequence of [k, v] pairs with      *)
(*     distinct keys: the sequence order is the dict's insertion order;    *)
(*   - a JSON value is a record [kind, s, o]: kind is the JSON type, s the *)
(*     scalar's text, o the pairs [k, s] of a nested object (whose own     *)
(*     values are scalars);                                                *)
(*   - an endpoint is a sequence of tokens, "/" being a token of its own;  *)
(*   - a field name is the sequence of its parts between the dots.         *)
(***************************************************************************)
EXTENDS Integers, Sequences, FiniteSets, TLC

\* ------------------------------------------------------------------ bounds
\* largest number of pages the server serves for one endpoint
MaxPages == 2

\* ------------------------------------------------------------ JSON values
JStr(t) == [kind |-> "str", s |-> t, o |-> <<>>]
JInt(t) == [kind |-> "int", s |-> t, o |-> <<>>]
JBool(t) == [kind |-> "bool", s |-> t, o |-> <<>>]
None == [kind |-> "null", s |-> "", o |-> <<>>]
JObj(pairs) == [kind |-> "obj", s |-> "", o |-> pairs]
KV(key, val) == [k |-> key, v |-> val]
KS(key, txt) == [k |-> key, s |-> txt]

\* Python truth value of a JSON value
Truthy(val) ==
    CASE val.kind = "null" -> FALSE
      [] val.kind = "bool" -> val.s = "true"
      [] val.kind = "int" -> val.s # "0"
      [] val.kind = "str" -> val.s # ""
      [] OTHER -> Len(val.o) > 0

\* ------------------------------------------------------- dict operations
HasKey(d, key) == \E i \in 1..Len(d) : d[i].k = key
Get(d, key) == d[CHOOSE i \in 1..Len(d) : d[i].k = key].v
GetS(d, key) == d[CHOOSE i \in 1..Len(d) : d[i].k = key].s

\* d[key] = val: an existing key keeps its position, a new key goes last
DictSet(d, key, val) ==
    IF HasKey(d, key)
    THEN [i \in 1..Len(d) |-> IF d[i].k = key THEN KV(key, val) ELSE d[i]]
    ELSE Append(d, KV(key, val))

\* d.update(other), other given as a sequence of pairs
RECURSIVE DictUpdate(_, _)
DictUpdate(d, other) ==
    IF other = <<>> THEN d
    ELSE DictUpdate(DictSet(d, Head(other).k, Head(other).v), Tail(other))

\* ------------------------------------------------------------- the data
\* keys that occur in records, in the order Python sorts them
KeysInOrder ==
    <<"html_url", "id", "login", "name", "org", "owner", "private", "repo",
      "url">>
KeyRank(key) == CHOOSE i \in 1..Len(KeysInOrder) : KeysInOrder[i] = key
\* str.endswith('url') on the keys that occur
EndsWithUrl(key) == key \in {"html_url", "url"}

Repo1 == << KV("id", JInt("1")), KV("name", JStr("B")),
            KV("private", JBool("true")),
            KV("owner", JObj(<<KS("login", "o"), KS("url", "u")>>)),
            KV("html_url", JStr("h")) >>
Repo2 == << KV("name", JStr("a")), KV("owner", None),
            KV("private", JBool("false")) >>
Repo3 == << KV("name", JStr("c")), KV("id", JInt("3")) >>
Member1 == << KV("login", JStr("x")), KV("id", JInt("2")), KV("url", JStr("u")) >>
Member2 == << KV("org", JStr("z")), KV("login", JStr("y")) >>
Collab1 == << KV("login", JStr("x")), KV("id", JInt("1")) >>
Collab2 == << KV("login", JStr("y")), KV("id", JInt("2")) >>

\* ------------------------------------------------------------ the inputs
\* github_data requests as the subcommands issue them: reposget passes no
\* constants, membersget passes the organization as a constant
ReposRequest ==
    [endpoint |-> <<"/", "orgs", "/", "o", "/", "repos">>, entity |-> "repo",
     constants |-> <<>>]
MembersRequest ==
    [endpoint |-> <<"/", "orgs", "/", "o", "/", "members">>,
     entity |-> "member", constants |-> <<KV("org", JStr("o"))>>]
Requests == {ReposRequest, MembersRequest}

\* requests whose endpoints differ in the query string only (membersget with
\* audit2fa) or in the place of a separator only (collabs for the repository
\* a-b of o and for the repository b of o-a)
Members2faRequest ==
    [endpoint |-> <<"/", "orgs", "/", "o", "/", "members", "?", "filter", "=",
                    "2fa_disabled">>,
     entity |-> "member", constants |-> <<KV("org", JStr("o"))>>]
CollabsRequest1 ==
    [endpoint |-> <<"/", "repos", "/", "o", "/", "a", "-", "b", "/",
                    "collaborators">>,
     entity |-> "collab",
     constants |-> <<KV("owner", JStr("o")), KV("repo", JStr("a-b"))>>]
CollabsRequest2 ==
    [endpoint |-> <<"/", "repos", "/", "o", "-", "a", "/", "b", "/",
                    "collaborators">>,
     entity |-> "collab",
     constants |-> <<KV("owner", JStr("o-a")), KV("repo", JStr("b"))>>]
KeyRequests ==
    {MembersRequest, Members2faRequest, CollabsRequest1, CollabsRequest2}

\* the repositories of an organization, a hundred per page (ghaudit)
ApiRequest ==
    [endpoint |-> <<"/", "orgs", "/", "o", "/", "repos", "?", "per_page", "=",
                    "100">>,
     entity |-> "repo", constants |-> <<>>]

\* field specifications: absent, the wildcards, exact lists (plain and dotted)
FieldSpecs ==
    { <<>>, << <<"*">> >>, << <<"urls">> >>, << <<"nourls">> >>,
      << <<"name">>, <<"id">>, <<"owner", "login">>, <<"private">>,
         <<"org">> >>,
      << <<"login">>, <<"id">> >>, << <<"id">>, <<"login">> >> }

\* what the operator may type at the prompt of github_data
Typed == {"A", "c", "x", "q"}
DataSources == {"a", "c", "p"}
Usernames == {"", "msftgits"}
\* with a user for whom no token is stored
ApiUsernames == {"", "msftgits", "nouser"}

\* record arrays the server may return in one page of an endpoint
Bodies(endpoint) ==
    CASE endpoint = ReposRequest.endpoint ->
             { <<>>, <<Repo1, Repo2>>, <<Repo3>> }
      [] endpoint = Members2faRequest.endpoint -> { <<>>, <<Member1>> }
      [] endpoint = CollabsRequest1.endpoint -> { <<>>, <<Collab1>> }
      [] endpoint = CollabsRequest2.endpoint -> { <<>>, <<Collab2>> }
      [] OTHER -> { <<>>, <<Member1, Member2>> }

\* ---------------------------------------------------------- string helpers
\* str.lower() on the strings that occur
Lower(t) ==
    CASE t = "A" -> "a"
      [] t = "C" -> "c"
      [] t = "X" -> "x"
      [] t = "B" -> "b"
      [] t = "None" -> "none"
      [] t = "True" -> "true"
      [] t = "False" -> "false"
      [] OTHER -> t

\* sep.join(parts)
RECURSIVE Join(_, _)
Join(parts, sep) ==
    IF Len(parts) = 0 THEN ""
    ELSE IF Len(parts) = 1 THEN parts[1]
    ELSE parts[1] \o sep \o Join(Tail(parts), sep)

\* ------------------------------------------------------------ cache layer
\* endpoint.replace('/', '-')
ReplaceSlash(endpoint) ==
    [i \in 1..Len(endpoint) |-> IF endpoint[i] = "/" THEN "-" ELSE endpoint[i]]

\* str.strip('-')
RECURSIVE StripDash(_)
StripDash(toks) ==
    IF toks = <<>> THEN toks
    ELSE IF Head(toks) = "-" THEN StripDash(Tail(toks))
    ELSE IF toks[Len(toks)] = "-" THEN StripDash(SubSeq(toks, 1, Len(toks) - 1))
    ELSE toks

\* a cache_filename that leaves the query string out of the name
cache_filename_path(endpoint, user) ==
    LET auth == IF user # "" THEN user ELSE "_anon"
        path == IF \E i \in 1..Len(endpoint) : endpoint[i] = "?"
                THEN SubSeq(endpoint, 1,
                         (CHOOSE i \in 1..Len(endpoint) : endpoint[i] = "?") - 1)
                ELSE endpoint
    IN  <<"gh_cache/", auth, "_">> \o StripDash(ReplaceSlash(path))
            \o <<".json">>

\* the file name of the cache entry of (user, endpoint)
cache_filename(endpoint, user) ==
    LET auth == IF user # "" THEN user ELSE "_anon"
    IN  <<"gh_cache/", auth, "_">> \o StripDash(ReplaceSlash(endpoint))
            \o <<".json">>

Filenames ==
    { cache_filename(r.endpoint, u) :
        r \in Requests \cup KeyRequests \cup {ApiRequest},
        u \in Usernames \cup ApiUsernames }

\* a file of the cache folder: whether it exists, and its content as the
\* JSON document json.loads makes of its text
NoFile == [exists |-> FALSE, data |-> <<>>]

\* the pairs of a dict ordered by key (json.dumps with sort_keys=True)
SortByKey(d) ==
    [i \in 1..Len(d) |->
        d[CHOOSE j \in 1..Len(d) :
            Cardinality({m \in 1..Len(d) :
                KeyRank(d[m].k) < KeyRank(d[j].k)}) = i - 1]]

\* json.loads(json.dumps(source, indent=4, sort_keys=True)): every object,
\* nested ones included, comes back with its keys in sorted order
JsonRoundTrip(source) ==
    [n \in 1..Len(source) |->
        LET sorted == SortByKey(source[n])
        IN  [i \in 1..Len(sorted) |->
                IF sorted[i].v.kind = "obj"
                THEN KV(sorted[i].k, JObj(SortByKey(sorted[i].v.o)))
                ELSE sorted[i]]]

\* the cache folder after write_json(source, filename)
write_json(files, source, filename) ==
    IF source = <<>> \/ filename = <<>>
    THEN files
    ELSE [files EXCEPT ![filename] =
            [exists |-> TRUE, data |-> JsonRoundTrip(source)]]

\* read_json: open() raises when the file does not exist
read_json(files, filename) ==
    IF files[filename].exists
    THEN [raised |-> FALSE, data |-> files[filename].data]
    ELSE [raised |-> TRUE, data |-> <<>>]

\* a cache_exists that takes the entry to exist whatever the files are
cache_exists_always(files, endpoint, user) == TRUE

cache_exists(files, endpoint, user) ==
    files[cache_filename(endpoint, user)].exists

github_data_from_cache(files, endpoint, user) ==
    read_json(files, cache_filename(endpoint, user))

\* the records of payload after cache_update: the constants are stored into
\* the very dicts of the payload, which the caller goes on to use
cache_update_payload(payload, constants) ==
    IF constants # <<>>
    THEN [n \in 1..Len(payload) |-> DictUpdate(payload[n], constants)]
    ELSE payload

\* the cache folder after cache_update
cache_update(files, endpoint, payload, constants, user) ==
    write_json(files, cache_update_payload(payload, constants),
               cache_filename(endpoint, user))

\* -------------------------------------------------------- field projector
\* a default_fields with the fields of repositories in the other order
default_fields_swapped(entity) ==
    CASE entity = "member" -> << <<"login">>, <<"id">>, <<"type">>,
                                 <<"site_admin">> >>
      [] entity = "repo" -> << <<"owner", "login">>, <<"name">> >>
      [] entity = "team" -> << <<"name">>, <<"id">>, <<"privacy">>,
                               <<"permission">> >>
      [] entity = "org" -> << <<"login">>, <<"user">> >>
      [] entity = "collab" -> << <<"login">>, <<"owner">>, <<"repo">>,
                                 <<"id">> >>
      [] OTHER -> << <<"name">> >>

default_fields(entity) ==
    CASE entity = "member" -> << <<"login">>, <<"id">>, <<"type">>,
                                 <<"site_admin">> >>
      [] entity = "repo" -> << <<"name">>, <<"owner", "login">> >>
      [] entity = "team" -> << <<"name">>, <<"id">>, <<"privacy">>,
                               <<"permission">> >>
      [] entity = "org" -> << <<"login">>, <<"user">> >>
      [] entity = "collab" -> << <<"login">>, <<"owner">>, <<"repo">>,
                                 <<"id">> >>
      [] OTHER -> << <<"name">> >>

Wildcards == {"*", "urls", "nourls"}

\* a StripUrls that leaves the nested object as it is
StripUrls_same(val) == val

\* the nested object without its keys that end in 'url'
StripUrls(val) ==
    JObj(SelectSeq(val.o, LAMBDA p : ~EndsWithUrl(p.k)))

\* a loop that takes every key of the record, whatever the mode
WildcardFields_all(values, jsondata, mode) == DictUpdate(values, jsondata)

\* the loop over the record's keys in the wildcard modes
RECURSIVE WildcardFields(_, _, _)
WildcardFields(values, jsondata, mode) ==
    IF jsondata = <<>> THEN values
    ELSE LET fldname == Head(jsondata).k
             this_item == Head(jsondata).v
             wanted == \/ mode = "*"
                       \/ mode = "urls" /\ EndsWithUrl(fldname)
                       \/ mode = "nourls" /\ ~EndsWithUrl(fldname)
             item == IF this_item.kind = "obj" /\ mode = "nourls"
                     THEN StripUrls(this_item)
                     ELSE this_item
         IN  WildcardFields(
                 IF wanted THEN DictSet(values, fldname, item) ELSE values,
                 Tail(jsondata), mode)

\* a lookup that gives None for an absent parent only, and the parent's own
\* value where the parent has no such child
Dotted_parent(jsondata, parts) ==
    IF ~HasKey(jsondata, parts[1]) THEN None
    ELSE IF /\ Get(jsondata, parts[1]).kind = "obj"
            /\ \E i \in 1..Len(Get(jsondata, parts[1]).o) :
                   Get(jsondata, parts[1]).o[i].k = parts[2]
    THEN JStr(GetS(Get(jsondata, parts[1]).o, parts[2]))
    ELSE Get(jsondata, parts[1])

\* jsondata[parent][child] of a dotted field name; any KeyError or
\* TypeError gives None
Dotted(jsondata, parts) ==
    IF /\ HasKey(jsondata, parts[1])
       /\ Get(jsondata, parts[1]).kind = "obj"
       /\ \E i \in 1..Len(Get(jsondata, parts[1]).o) :
              Get(jsondata, parts[1]).o[i].k = parts[2]
    THEN JStr(GetS(Get(jsondata, parts[1]).o, parts[2]))
    ELSE None

\* one field name of an exact list: the row and the unknown-field slot
\* after it
ExactField(st, jsondata, parts, constants) ==
    LET fldname == Join(parts, ".")
    IN  IF constants # <<>> /\ HasKey(constants, fldname)
        THEN [st EXCEPT !.values =
                 DictSet(st.values, fldname, Get(constants, fldname))]
        ELSE IF Len(parts) > 1
        THEN [st EXCEPT !.values =
                 DictSet(st.values, Join(parts, "_"), Dotted(jsondata, parts))]
        ELSE IF HasKey(jsondata, fldname)
        THEN [st EXCEPT !.values =
                 DictSet(st.values, fldname,
                     IF Lower(fldname) = "private"
                     THEN IF Truthy(Get(jsondata, fldname))
                          THEN JStr("private") ELSE JStr("public")
                     ELSE Get(jsondata, fldname))]
        ELSE [st EXCEPT !.unknown = <<fldname>>]

\* the loop over the field names of an exact list
RECURSIVE ExactFields(_, _, _, _)
ExactFields(st, jsondata, fields, constants) ==
    IF fields = <<>> THEN st
    ELSE ExactFields(ExactField(st, jsondata, Head(fields), constants),
                     jsondata, Tail(fields), constants)

\* a data_fields that merges the constants in every wildcard mode
data_fields_merge(entity, jsondata, fields, constants, unknown) ==
    LET flds == IF fields = <<>> THEN default_fields(entity) ELSE fields
        mode == Join(flds[1], ".")
    IN  IF mode \in Wildcards
        THEN [values |->
                 WildcardFields(
                     IF constants # <<>> THEN DictUpdate(<<>>, constants)
                     ELSE <<>>,
                     jsondata,
                     IF constants # <<>> /\ mode = "urls" THEN "*" ELSE mode),
              unknown |-> unknown]
        ELSE ExactFields([values |-> <<>>, unknown |-> unknown],
                         jsondata, flds, constants)

\* data_fields: values is the row returned, unknown is
\* _settings.unknownfieldname after the call (<<>>: attribute not set)
data_fields(entity, jsondata, fields, constants, unknown) ==
    LET flds == IF fields = <<>> THEN default_fields(entity) ELSE fields
        mode == Join(flds[1], ".")
    IN  IF mode \in Wildcards
        THEN [values |->
                 WildcardFields(
                     IF constants # <<>> /\ mode \in {"*", "nourls"}
                     THEN DictUpdate(<<>>, constants) ELSE <<>>,
                     jsondata, mode),
              unknown |-> unknown]
        ELSE ExactFields([values |-> <<>>, unknown |-> unknown],
                         jsondata, flds, constants)

\* the loop of github_data over all_fields: the rows returned
ProjectRows(entity, all_fields, fields, constants) ==
    [n \in 1..Len(all_fields) |->
        data_fields(entity, all_fields[n], fields, constants, <<>>).values]

\* the same loop: _settings.unknownfieldname at its end
RECURSIVE ProjectUnknown(_, _, _, _, _)
ProjectUnknown(entity, all_fields, fields, constants, unknown) ==
    IF all_fields = <<>> THEN unknown
    ELSE ProjectUnknown(entity, Tail(all_fields), fields, constants,
             data_fields(entity, Head(all_fields), fields, constants,
                         unknown).unknown)

\* ------------------------------------------------------ result assembler
\* repr() of a nested object
Repr(pairs) ==
    "{" \o Join([i \in 1..Len(pairs) |->
                    "'" \o pairs[i].k \o "': '" \o pairs[i].s \o "'"], ", ")
        \o "}"

\* str(value)
StrOf(val) ==
    CASE val.kind = "null" -> "None"
      [] val.kind = "bool" -> IF val.s = "true" THEN "True" ELSE "False"
      [] val.kind = "obj" -> Repr(val.o)
      [] OTHER -> val.s

\* the lower-case strings that occur as sort keys, in the order Python
\* compares strings (by code point: digits, letters, '{'; ',' before '}')
StringsInOrder ==
    <<"1", "2", "3", "a", "b", "c", "false", "h", "none", "o", "private",
      "public", "true", "u", "x", "y", "z",
      "{'login': 'o', 'url': 'u'}", "{'login': 'o'}">>
StrRank(t) == CHOOSE i \in 1..Len(StringsInOrder) : StringsInOrder[i] = t

\* data_sort: the lower-case string of the first value of the row;
\* list(datadict.keys())[0] raises IndexError on a row without keys
data_sort(datadict) == Lower(StrOf(datadict[1].v))
SortRaises(rows) == \E n \in 1..Len(rows) : rows[n] = <<>>

\* sorted(rows, key=data_sort): the sort is stable
sorted(rows) ==
    LET before(j, i) ==
            \/ StrRank(data_sort(rows[j])) < StrRank(data_sort(rows[i]))
            \/ /\ StrRank(data_sort(rows[j])) = StrRank(data_sort(rows[i]))
               /\ j < i
    IN  [p \in 1..Len(rows) |->
            rows[CHOOSE i \in 1..Len(rows) :
                     Cardinality({j \in 1..Len(rows) : before(j, i)}) = p - 1]]

\* ------------------------------------------------ transport and pagination
BaseURL == "https://api.github.com"
PageText == <<"1", "2", "3", "4", "5", "6", "7", "8", "9">>

\* the URL of page p of an endpoint, as the server writes it in a Link header
PageURL(endpoint, p) ==
    <<BaseURL>> \o endpoint
        \o << IF \E i \in 1..Len(endpoint) : endpoint[i] = "?"
              THEN "&" ELSE "?",
              "page", "=", PageText[p] >>

\* github_api: the URL the GET is sent to
full_endpoint_base(endpoint) == <<BaseURL>> \o endpoint

full_endpoint(endpoint) ==
    IF endpoint[1] = "/" THEN <<BaseURL>> \o endpoint ELSE endpoint

\* the part of toks after the last sep (all of toks when sep does not occur):
\* str.split(sep)[-1]
AfterLast(toks, sep) ==
    LET at == {i \in 1..Len(toks) : toks[i] = sep}
    IN  IF at = {} THEN toks
        ELSE SubSeq(toks, (CHOOSE i \in at : \A j \in at : j <= i) + 1,
                    Len(toks))

NoLinks ==
    [firstpage |-> "0", firstURL |-> <<>>, prevpage |-> "0", prevURL |-> <<>>,
     nextpage |-> "0", nextURL |-> <<>>, lastpage |-> "0", lastURL |-> <<>>]

\* text[1:-1] on the texts that occur: a URL token sequence loses the first
\* character of its first token and its last token (of one character), a
\* rel value its first and its last character
InnerURL(url) == <<"ttps://api.github.com">> \o SubSeq(url, 2, Len(url) - 1)
InnerRel(rel) ==
    CASE rel = "next" -> "ex"
      [] rel = "last" -> "as"
      [] rel = "prev" -> "re"
      [] rel = "first" -> "irs"
      [] OTHER -> ""

\* an entry of the Link header, '<url>; rel="type"': written is the text
\* before the ';' and after 'rel=', with or without the brackets and quotes
\* that the parser cuts off
LinkURL(link) == IF link.bracketed THEN link.url ELSE InnerURL(link.url)
LinkType(link) == IF link.quoted THEN link.rel ELSE InnerRel(link.rel)

\* the loop of pagination over the entries of the Link header
RECURSIVE ParseLinks(_, _)
ParseLinks(retval, links) ==
    IF links = <<>> THEN retval
    ELSE LET linktype == LinkType(Head(links))
             url == LinkURL(Head(links))
             pageno == Join(AfterLast(AfterLast(url, "?"), "="), "")
             set == CASE linktype = "first" ->
                            [retval EXCEPT !.firstpage = pageno, !.firstURL = url]
                      [] linktype = "prev" ->
                            [retval EXCEPT !.prevpage = pageno, !.prevURL = url]
                      [] linktype = "next" ->
                            [retval EXCEPT !.nextpage = pageno, !.nextURL = url]
                      [] linktype = "last" ->
                            [retval EXCEPT !.lastpage = pageno, !.lastURL = url]
                      [] OTHER -> retval
         IN  ParseLinks(set, Tail(links))

\* pagination(response): no Link header gives the initial dictionary
pagination(response) ==
    IF ~response.haslink THEN NoLinks ELSE ParseLinks(NoLinks, response.link)

\* ---------------------------------------------------------------- server
\* the endpoint and the page number a requested URL stands for
PathOf(url) ==
    LET rel == IF url[1] = BaseURL THEN Tail(url) ELSE url
    IN  IF \E i \in 1..Len(rel) : rel[i] = "page"
        THEN SubSeq(rel, 1, (CHOOSE i \in 1..Len(rel) : rel[i] = "page") - 2)
        ELSE rel
PageOf(url) ==
    IF \E i \in 1..Len(url) : url[i] = "page"
    THEN CHOOSE p \in 1..Len(PageText) : PageText[p] = url[Len(url)]
    ELSE 1

Link(u, r) == [url |-> u, rel |-> r, bracketed |-> TRUE, quoted |-> TRUE]

\* the rate-limit headers of a response: X-RateLimit-Limit and
\* X-RateLimit-Remaining, or neither
RateLimit(limit, remaining) ==
    [has |-> TRUE, limit |-> limit, remaining |-> remaining]
NoRateLimit == [has |-> FALSE, limit |-> 0, remaining |-> 0]

\* Link headers the server may send with page p of an endpoint: none, one
\* with a next page (while there is one), one without (after the first page)
LinkHeaders(endpoint, p) ==
    { [haslink |-> FALSE, link |-> <<>>] }
    \cup { [haslink |-> TRUE,
            link |-> << Link(PageURL(endpoint, p + 1), "next"),
                        Link(PageURL(endpoint, MaxPages), "last") >>] :
           x \in IF p < MaxPages THEN {1} ELSE {} }
    \cup { [haslink |-> TRUE,
            link |-> << Link(PageURL(endpoint, p - 1), "prev"),
                        Link(PageURL(endpoint, 1), "first") >>] :
           x \in IF p > 1 THEN {1} ELSE {} }

\* responses the server may give to a GET of url: OK with a record array, or
\* not OK with an error document (which holds no records)
Responses(url) ==
    LET endpoint == PathOf(url)
        p == PageOf(url)
    IN  { [ok |-> b.ok, body |-> b.body, haslink |-> h.haslink,
           link |-> h.link, ratelimit |-> RateLimit(5000, 4999)] :
          b \in {[ok |-> TRUE, body |-> x] : x \in Bodies(endpoint)}
                \cup {[ok |-> FALSE, body |-> <<>>]},
          h \in LinkHeaders(endpoint, p) }

\* the URL of page p of ApiRequest in a Link header, with the page parameter
\* after or before the per_page parameter
ApiPageURL(p, pagelast) ==
    <<BaseURL, "/", "orgs", "/", "o", "/", "repos", "?">>
        \o IF pagelast
           THEN <<"per_page", "=", "100", "&", "page", "=", PageText[p]>>
           ELSE <<"page", "=", PageText[p], "&", "per_page", "=", "100">>

\* Link headers the server may send with page p of ApiRequest: none; next
\* and last in either parameter order; last only; and headers that are not
\* of the form '<url>; rel="type"': the brackets of the next URL missing,
\* the quotes of rel missing
ApiLinkHeaders(p) ==
    { [haslink |-> FALSE, link |-> <<>>],
      [haslink |-> TRUE, link |-> <<Link(ApiPageURL(MaxPages, TRUE), "last")>>] }
    \cup { [haslink |-> TRUE, link |-> l] :
           l \in IF p >= MaxPages THEN {}
                 ELSE { << Link(ApiPageURL(p + 1, TRUE), "next"),
                           Link(ApiPageURL(MaxPages, TRUE), "last") >>,
                        << Link(ApiPageURL(p + 1, FALSE), "next"),
                           Link(ApiPageURL(MaxPages, FALSE), "last") >>,
                        << [url |-> ApiPageURL(p + 1, TRUE), rel |-> "next",
                            bracketed |-> FALSE, quoted |-> TRUE] >>,
                        << [url |-> ApiPageURL(p + 1, TRUE), rel |-> "next",
                            bracketed |-> TRUE, quoted |-> FALSE] >> } }

\* responses the server may give to the GET of page p of ApiRequest, with
\* or without the rate-limit headers
ApiResponses(p) ==
    { [ok |-> b.ok, body |-> b.body, haslink |-> h.haslink, link |-> h.link,
       ratelimit |-> rl] :
      b \in { [ok |-> TRUE, body |-> <<>>], [ok |-> TRUE, body |-> <<Repo3>>],
              [ok |-> FALSE, body |-> <<>>] },
      h \in ApiLinkHeaders(p),
      rl \in { NoRateLimit, RateLimit(60, 59) } }

\* ----------------------------------------------------------------- state
VARIABLES
    username,          \* _settings.username of the running process
    datasource,        \* _settings.datasource
    unknownfieldname,  \* _settings.unknownfieldname (<<>>: not set)
    cache,             \* the files of the gh_cache folder, by file name
    pc,                \* "idle", "fetching", "fetched", "returned", "exited",
                       \* "raised"
    call,              \* the arguments of the current or last github_data
    prompted,          \* the prompt shown to the operator by that call
    echoed,            \* the error messages that call printed
    read_from,         \* its local read_from ("": not assigned)
    page_endpoint,     \* github_data_from_api: endpoint of the next page
    pages,             \* the responses github_data_from_api has received
    payload,           \* github_data_from_api: the records so far / returned
    all_fields,        \* github_data: the records that are projected
    retval,            \* the rows github_data returned
    sort_status,       \* the subcommand's sort of the rows: "no" (not
                       \* reached), "done", "raised"
    sorted_data,       \* the subcommand's sorted_data
    accesstoken,       \* _settings.accesstoken
    requests,          \* the GETs the process has sent: URL and credentials
    tot_api_calls,     \* _settings.tot_api_calls
    tot_api_bytes,     \* _settings.tot_api_bytes
    last_ratelimit,    \* _settings.last_ratelimit
    last_remaining,    \* _settings.last_remaining
    dict_in,           \* remove_github_urls: its argument
    dict_out,          \* remove_github_urls: what it returned
    file,              \* one cache file that several processes use
    writers,           \* the processes that write it, each in cache_update
    reader             \* a process that reads it in cache mode

vars == <<username, datasource, unknownfieldname, cache, pc, call, prompted,
          echoed, read_from, page_endpoint, pages, payload, all_fields,
          retval, sort_status, sorted_data, accesstoken, requests,
          tot_api_calls, tot_api_bytes, last_ratelimit, last_remaining,
          dict_in, dict_out, file, writers, reader>>

\* the state of the process that calls github_data
session == <<username, datasource, unknownfieldname, cache, pc, call,
             prompted, echoed, read_from, page_endpoint, pages, payload,
             all_fields, retval, sort_status, sorted_data, accesstoken,
             requests, tot_api_calls, tot_api_bytes, last_ratelimit,
             last_remaining>>

\* what the runs of one process alone leave as it is
others == <<dict_in, dict_out, file, writers, reader>>

NoCall == [endpoint |-> <<>>, entity |-> "", constants |-> <<>>,
           fields |-> <<>>]
ErrNoCache == "ERROR: cached data requested, but none found."
PromptCached == "Read from API (a), cache (c) or exit (x)?"
PromptNoCache == "Read from API (a) or exit (x)?"

\* the session counters of _settings
counters == <<tot_api_calls, tot_api_bytes, last_ratelimit, last_remaining>>

\* access_token: the PAT stored for the user in the INI file, or None
NoToken == "None"
access_token(user) == IF user = "msftgits" THEN "PAT" ELSE NoToken

\* auth_config({'username': user}): the token it stores and what it prints
ErrUnknownUser == "Unknown authentication username"
auth_config_token(user) == IF user = "" THEN NoToken ELSE access_token(user)
auth_config_echo(user) ==
    IF user # "" /\ access_token(user) = NoToken THEN {ErrUnknownUser} ELSE {}

\* auth_user: the credentials tuple, or None (<<>>)
auth_user == IF username # "" THEN <<username, accesstoken>> ELSE <<>>

\* the start of a process run by user: _settings as the class sets it, then
\* the auth_config of the subcommand
Session(user) ==
    /\ username = user
    /\ accesstoken = auth_config_token(user)
    /\ echoed = auth_config_echo(user)
    /\ datasource = "p"
    /\ unknownfieldname = <<>>
    /\ cache = [f \in Filenames |-> NoFile]
    /\ pc = "idle"
    /\ call = NoCall
    /\ prompted = ""
    /\ read_from = ""
    /\ page_endpoint = <<>>
    /\ pages = <<>>
    /\ payload = <<>>
    /\ all_fields = <<>>
    /\ retval = <<>>
    /\ sort_status = "no"
    /\ sorted_data = <<>>
    /\ requests = <<>>
    /\ tot_api_calls = 0
    /\ tot_api_bytes = 0
    /\ last_ratelimit = 0
    /\ last_remaining = 0

\* no call of remove_github_urls and no other process
NoDict == [none |-> TRUE, d |-> <<>>]
Writers == {1, 2}
Alone ==
    /\ dict_in = NoDict
    /\ dict_out = [pc |-> "idle", d |-> <<>>]
    /\ file = [exists |-> FALSE, text |-> <<>>]
    /\ writers = [w \in Writers |-> [pc |-> "done", data |-> <<>>]]
    /\ reader = [pc |-> "nocache", text |-> <<>>]

Start(user) == Session(user) /\ Alone

Init == \E user \in Usernames : Start(user)

\* the end of github_data called with c: project every record of records
\* and return
Return(c, records) ==
    /\ all_fields' = records
    /\ retval' = ProjectRows(c.entity, records, c.fields, c.constants)
    /\ unknownfieldname' = ProjectUnknown(c.entity, records, c.fields,
                                          c.constants, unknownfieldname)
    /\ pc' = "returned"

\* github_data leaves without a result: sys.exit or an exception
Leave_return(how) ==
    /\ pc' = "returned"
    /\ all_fields' = <<>>
    /\ retval' = <<>>
    /\ UNCHANGED unknownfieldname

Leave(how) ==
    /\ pc' = how
    /\ all_fields' = <<>>
    /\ retval' = <<>>
    /\ UNCHANGED unknownfieldname

\* a run of a subcommand (repos, members, ...): it sets the data source and
\* calls github_data once; typed is what the operator answers if prompted.
\* The call runs up to its return, its exit, its exception, or the first
\* request of the paginated fetch.
github_data(req, fields, source, typed) ==
    LET exists == cache_exists(cache, req.endpoint, username)
        c == [endpoint |-> req.endpoint, entity |-> req.entity,
              constants |-> req.constants, fields |-> fields]
        choice == IF source = "a" THEN "a"
                  ELSE IF source = "c" THEN "c"
                  ELSE Lower(typed)
    IN
    /\ pc = "idle"
    /\ UNCHANGED others
    /\ datasource' = source
    /\ call' = c
    /\ pages' = <<>>
    /\ payload' = <<>>
    /\ UNCHANGED <<username, cache, sort_status, sorted_data, accesstoken,
                   requests, counters>>
    /\ IF source = "c" /\ ~exists
       THEN /\ echoed' = echoed \cup {ErrNoCache}
            /\ prompted' = ""
            /\ read_from' = ""
            /\ page_endpoint' = <<>>
            /\ all_fields' = <<>>
            /\ retval' = <<>>
            /\ pc' = "returned"
            /\ UNCHANGED unknownfieldname
       ELSE /\ echoed' = echoed
            /\ prompted' = IF source \in {"a", "c"} THEN ""
                           ELSE IF exists THEN PromptCached
                           ELSE PromptNoCache
            /\ read_from' = choice
            /\ CASE choice = "x" ->
                      /\ page_endpoint' = <<>>
                      /\ Leave("exited")
                 [] choice = "a" ->
                      /\ pc' = "fetching"
                      /\ page_endpoint' = req.endpoint
                      /\ all_fields' = <<>>
                      /\ retval' = <<>>
                      /\ UNCHANGED unknownfieldname
                 [] choice = "c" ->
                      LET rd == github_data_from_cache(cache, req.endpoint,
                                                       username)
                      IN  /\ page_endpoint' = <<>>
                          /\ IF rd.raised
                             THEN Leave("raised")
                             ELSE Return(c, rd.data)
                 [] OTHER ->
                      /\ page_endpoint' = <<>>
                      /\ Return(c, <<>>)

\* faulty variants of Extend: every page replaces the records so far; a page is put
\* in front of the records so far
Extend_replace(records, response) ==
    IF response.ok THEN response.body ELSE records
Extend_prepend(records, response) ==
    IF response.ok THEN response.body \o records ELSE records
Extend_reset(records, response) ==
    IF response.ok THEN records \o response.body ELSE <<>>

\* the records of the pages received, as the loop accumulates them
Extend(records, response) ==
    IF response.ok THEN records \o response.body ELSE records

\* github_api: the rate-limit settings after the response; without the
\* headers (KeyError) both get the value 999999
github_api_ratelimit(response) ==
    IF response.ratelimit.has
    THEN [limit |-> response.ratelimit.limit,
          remaining |-> response.ratelimit.remaining]
    ELSE [limit |-> 999999, remaining |-> 999999]

\* one turn of the loop of github_data_from_api: the GET of page_endpoint is
\* answered by response.  Without a next page the function returns payload.
FetchPage(response) ==
    LET pagelinks == pagination(response)
    IN
    /\ pc = "fetching"
    /\ UNCHANGED others
    /\ requests' = Append(requests, [url |-> full_endpoint(page_endpoint),
                                     auth |-> auth_user])
    /\ last_ratelimit' = github_api_ratelimit(response).limit
    /\ last_remaining' = github_api_ratelimit(response).remaining
    /\ UNCHANGED <<tot_api_calls, tot_api_bytes, accesstoken>>
    /\ pages' = Append(pages, response)
    /\ payload' = Extend(payload, response)
    /\ page_endpoint' = pagelinks.nextURL
    /\ pc' = IF pagelinks.nextURL # <<>> THEN "fetching" ELSE "fetched"
    /\ UNCHANGED <<username, datasource, unknownfieldname, cache, call,
                   prompted, echoed, read_from, all_fields, retval,
                   sort_status, sorted_data>>

\* github_data after github_data_from_api has returned: update the cache,
\* project the records and return
Finish ==
    /\ pc = "fetched"
    /\ UNCHANGED others
    /\ cache' = cache_update(cache, call.endpoint, payload, call.constants,
                             username)
    /\ Return(call, cache_update_payload(payload, call.constants))
    /\ UNCHANGED <<username, datasource, call, prompted, echoed, read_from,
                   page_endpoint, pages, payload, sort_status, sorted_data,
                   accesstoken, requests, counters>>

\* the subcommand after github_data has returned:
\* sorted_data = sorted(rows, key=data_sort)
Sort ==
    /\ pc = "returned"
    /\ UNCHANGED others
    /\ sort_status = "no"
    /\ IF SortRaises(retval)
       THEN sort_status' = "raised" /\ sorted_data' = <<>>
       ELSE sort_status' = "done" /\ sorted_data' = sorted(retval)
    /\ UNCHANGED <<username, datasource, unknownfieldname, cache, pc, call,
                   prompted, echoed, read_from, page_endpoint, pages, payload,
                   all_fields, retval, accesstoken, requests, counters>>

\* the process has ended (exit or exception, or the subcommand is done) and
\* the program is started again by the same user: the settings are those of
\* a new process, the cache folder is what it was
Restart ==
    /\ UNCHANGED others
    /\ \/ pc \in {"exited", "raised"}
       \/ pc = "returned" /\ sort_status # "no"
    /\ UNCHANGED <<username, accesstoken>>
    /\ datasource' = "p"
    /\ unknownfieldname' = <<>>
    /\ pc' = "idle"
    /\ call' = NoCall
    /\ prompted' = ""
    /\ echoed' = auth_config_echo(username)
    /\ requests' = <<>>
    /\ tot_api_calls' = 0
    /\ tot_api_bytes' = 0
    /\ last_ratelimit' = 0
    /\ last_remaining' = 0
    /\ read_from' = ""
    /\ page_endpoint' = <<>>
    /\ pages' = <<>>
    /\ payload' = <<>>
    /\ all_fields' = <<>>
    /\ retval' = <<>>
    /\ sort_status' = "no"
    /\ sorted_data' = <<>>
    /\ UNCHANGED cache

Call ==
    \E req \in Requests, fields \in FieldSpecs, source \in DataSources :
        \E typed \in IF source = "p" THEN Typed ELSE {""} :
            github_data(req, fields, source, typed)

Fetch ==
    /\ pc = "fetching"
    /\ \E response \in Responses(full_endpoint(page_endpoint)) :
           FetchPage(response)

Next == Call \/ Fetch \/ Finish \/ Sort \/ Restart

Spec == Init /\ [][Next]_vars

\* sess.get(full_endpoint) can send a request to a URL of the API only
Sendable(endpoint) == endpoint[1] \in {"/", BaseURL}

\* the runs of a process of any user that fetches ApiRequest from the API
ApiInit == \E user \in ApiUsernames : Start(user)

ApiCall == github_data(ApiRequest, <<>>, "a", "")

ApiFetch ==
    /\ pc = "fetching"
    /\ Sendable(page_endpoint)
    /\ \E response \in ApiResponses(Len(pages) + 1) : FetchPage(response)

\* github_api is called with a page_endpoint that is no URL: sess.get raises
FetchRaises ==
    /\ pc = "fetching"
    /\ ~Sendable(page_endpoint)
    /\ UNCHANGED others
    /\ requests' = Append(requests, [url |-> full_endpoint(page_endpoint),
                                     auth |-> auth_user])
    /\ Leave("raised")
    /\ UNCHANGED <<username, datasource, cache, call, prompted, echoed,
                   read_from, page_endpoint, pages, payload, sort_status,
                   sorted_data, accesstoken, counters>>

ApiNext == ApiCall \/ ApiFetch \/ FetchRaises \/ Finish \/ Sort \/ Restart

ApiSpec == ApiInit /\ [][ApiNext]_vars

\* the runs of members (with and without --audit2fa) and of collabs, with
\* the default fields, from the API or from the cache
KeyCall ==
    \E req \in KeyRequests, source \in {"a", "c"} :
        github_data(req, <<>>, source, "")

KeyNext == KeyCall \/ Fetch \/ Finish \/ Sort \/ Restart

KeySpec == Init /\ [][KeyNext]_vars

\* the process is single-threaded and its requests block: a request that was
\* sent is answered and the loop goes on
FairSpec == Spec /\ WF_vars(Fetch)

TypeOK ==
    /\ username \in Usernames \cup ApiUsernames
    /\ datasource \in DataSources
    /\ pc \in {"idle", "fetching", "fetched", "returned", "exited", "raised"}
    /\ Len(pages) <= MaxPages

\* ------------------------------------------------- remove_github_urls
MaxKeys == 3

\* the keys of the dictionaries given to remove_github_urls, letter by
\* letter
UrlKeys == {"html_url", "url", "curl", "id", "login", "owner"}
Letters(key) ==
    CASE key = "html_url" -> <<"h", "t", "m", "l", "_", "u", "r", "l">>
      [] key = "url" -> <<"u", "r", "l">>
      [] key = "curl" -> <<"c", "u", "r", "l">>
      [] key = "id" -> <<"i", "d">>
      [] key = "login" -> <<"l", "o", "g", "i", "n">>
      [] key = "owner" -> <<"o", "w", "n", "e", "r">>

\* str.endswith
endswith(key, suffix) ==
    LET text == Letters(key)
    IN  /\ Len(text) >= Len(suffix)
        /\ SubSeq(text, Len(text) - Len(suffix) + 1, Len(text)) = suffix

\* the value under a key: the owner is a nested object with a url of its own
UrlValue(key) ==
    IF key = "owner" THEN JObj(<<KS("login", "o"), KS("url", "u")>>)
    ELSE JStr(key)

\* the arguments: None, and the dictionaries of up to MaxKeys keys
DictInputs ==
    {NoDict} \cup
    { [none |-> FALSE, d |-> [i \in 1..Len(ks) |-> KV(ks[i], UrlValue(ks[i]))]] :
      ks \in UNION { { f \in [1..n -> UrlKeys] :
                          \A i, j \in 1..n : f[i] = f[j] => i = j } :
                      n \in 0..MaxKeys } }

\* a remove_github_urls that drops every key that ends in 'url'
remove_github_urls_suffix(x) ==
    IF x.none \/ x.d = <<>> THEN <<>>
    ELSE SelectSeq(x.d, LAMBDA kv : ~endswith(kv.k, <<"u", "r", "l">>))

remove_github_urls(x) ==
    IF x.none \/ x.d = <<>> THEN <<>>
    ELSE SelectSeq(x.d, LAMBDA kv : /\ ~endswith(kv.k, <<"_", "u", "r", "l">>)
                                    /\ ~(kv.k = "url"))

\* remove_github_urls is called with an argument, and returns
UrlCall ==
    /\ dict_out.pc # "called"
    /\ \E x \in DictInputs : dict_in' = x
    /\ dict_out' = [pc |-> "called", d |-> <<>>]
    /\ UNCHANGED <<session, file, writers, reader>>

UrlReturn ==
    /\ dict_out.pc = "called"
    /\ dict_out' = [pc |-> "returned", d |-> remove_github_urls(dict_in)]
    /\ UNCHANGED <<session, dict_in, file, writers, reader>>

UrlNext == UrlCall \/ UrlReturn

UrlSpec == Init /\ [][UrlNext]_vars

\* ------------------------------------------- processes on one cache file
\* what the live fetches of the writers may have returned, and the entry
\* of an earlier run
RaceResults == { <<>>, <<Repo3>>, <<Repo1, Repo2>> }
PrevEntry == <<Repo2, Repo3, Repo1>>

\* the text of a file, token by token: brackets and records
Tok(t) == [t |-> t, r |-> <<>>]
RecTok(rec) == [t |-> "rec", r |-> rec]

\* json.dumps(source, indent=4, sort_keys=True)
dumps(source) ==
    <<Tok("[")>>
        \o [i \in 1..Len(source) |-> RecTok(JsonRoundTrip(source)[i])]
        \o <<Tok("]")>>

\* json.loads accepts the text
IsDocument(text) ==
    /\ Len(text) >= 2
    /\ text[1] = Tok("[")
    /\ text[Len(text)] = Tok("]")
    /\ \A i \in 2..(Len(text) - 1) : text[i].t = "rec"

\* an open that leaves the content of the file as it is
open_keep(f) == [exists |-> TRUE, text |-> f.text]

\* open(filename, 'w'): the file exists and is empty from here on
open_w(f) == [exists |-> TRUE, text |-> <<>>]

\* the text of a file after new was written at its start
WriteAt0(text, new) == new \o SubSeq(text, Len(new) + 1, Len(text))

RaceInit ==
    /\ Session("msftgits")
    /\ dict_in = NoDict
    /\ dict_out = [pc |-> "idle", d |-> <<>>]
    /\ file \in { [exists |-> FALSE, text |-> <<>>],
                   [exists |-> TRUE, text |-> dumps(PrevEntry)] }
    /\ writers \in [Writers -> { [pc |-> "fetched", data |-> d] :
                                    d \in RaceResults }]
    /\ reader = [pc |-> "idle", text |-> <<>>]

\* write_json of writer w: nothing to do for an empty source
WriterSkip(w) ==
    /\ writers[w].pc = "fetched"
    /\ writers[w].data = <<>>
    /\ writers' = [writers EXCEPT ![w].pc = "done"]
    /\ UNCHANGED <<session, dict_in, dict_out, file, reader>>

\* write_json of writer w: open(filename, 'w')
WriterOpen(w) ==
    /\ writers[w].pc = "fetched"
    /\ writers[w].data # <<>>
    /\ file' = open_w(file)
    /\ writers' = [writers EXCEPT ![w].pc = "opened"]
    /\ UNCHANGED <<session, dict_in, dict_out, reader>>

\* write_json of writer w: the text is written when the with block ends
WriterClose(w) ==
    /\ writers[w].pc = "opened"
    /\ file' = [exists |-> TRUE,
                text |-> WriteAt0(file.text, dumps(writers[w].data))]
    /\ writers' = [writers EXCEPT ![w].pc = "done"]
    /\ UNCHANGED <<session, dict_in, dict_out, reader>>

\* github_data in cache mode in the reader: cache_exists
ReaderExists ==
    /\ reader.pc = "idle"
    /\ reader' = [pc |-> IF file.exists THEN "found" ELSE "nocache",
                  text |-> <<>>]
    /\ UNCHANGED <<session, dict_in, dict_out, file, writers>>

\* github_data_from_cache in the reader: read_json
ReaderRead ==
    /\ reader.pc = "found"
    /\ reader' = [pc |-> IF IsDocument(file.text) THEN "returned"
                         ELSE "raised",
                  text |-> file.text]
    /\ UNCHANGED <<session, dict_in, dict_out, file, writers>>

RaceNext ==
    \/ \E w \in Writers : WriterSkip(w)
    \/ \E w \in Writers : WriterOpen(w)
    \/ \E w \in Writers : WriterClose(w)
    \/ ReaderExists
    \/ ReaderRead

RaceSpec == RaceInit /\ [][RaceNext]_vars

\* ------------------------------------------------------------ properties
\* the file of the cache entry of the current call
CallFile == cache_filename(call.endpoint, username)

\* github_data has returned from a live fetch
LiveReturned == pc = "returned" /\ read_from = "a"

\* the record arrays of the OK pages, one after the other
RECURSIVE ConcatOK(_)
ConcatOK(responses) ==
    IF responses = <<>> THEN <<>>
    ELSE (IF Head(responses).ok THEN Head(responses).body ELSE <<>>)
         \o ConcatOK(Tail(responses))

\* the sum of the record counts of the pages
RECURSIVE SumCounts(_)
SumCounts(responses) ==
    IF responses = <<>> THEN 0
    ELSE Len(Head(responses).body) + SumCounts(Tail(responses))

\* two dicts with the same keys and the same values, whatever the key order
AsMap(d) ==
    { [k |-> d[i].k, kind |-> d[i].v.kind, s |-> d[i].v.s,
       o |-> {d[i].v.o[j] : j \in 1..Len(d[i].v.o)}] : i \in 1..Len(d) }
SameRecords(xs, ys) ==
    /\ Len(xs) = Len(ys)
    /\ \A n \in 1..Len(xs) : AsMap(xs[n]) = AsMap(ys[n])

\* C1: a cache entry changes only at the end of a live fetch all of whose
\* pages were fetched successfully, and then holds the records of all pages
C1_CacheEntryComplete ==
    [][\A f \in Filenames :
          cache'[f] # cache[f] =>
              /\ \A i \in 1..Len(pages') : pages'[i].ok
              /\ Len(cache'[f].data) = SumCounts(pages')]_vars

\* C2: a fetch whose responses end with one that has no next page comes to
\* an end, and returns as many records as the pages held together
C2_FetchTerminates ==
    /\ [](LiveReturned => Len(payload) = SumCounts(pages))
    /\ [](pc = "fetching" => <>(pc # "fetching"))

\* C2 witness: a fetch of several pages has ended on a response without a
\* Link header and returned records
C2_Witness ==
    /\ LiveReturned
    /\ Len(pages) >= 2
    /\ ~pages[Len(pages)].haslink
    /\ Len(payload) > 0

\* C3: the records returned are those of the OK pages, page after page, in
\* the order of each page, as they were received
C3_PayloadIsConcatenation ==
    pc \in {"fetching", "fetched"} \/ LiveReturned => payload = ConcatOK(pages)

\* C3 witness: two OK pages with records were fetched
C3_Witness ==
    /\ LiveReturned
    /\ Len(pages) >= 2
    /\ \A i \in 1..2 : pages[i].ok /\ pages[i].body # <<>>

\* the field list data_fields works with for the current call
CallFields ==
    IF call.fields = <<>> THEN default_fields(call.entity) ELSE call.fields
ExactList == Join(CallFields[1], ".") \notin Wildcards

\* the keys of a row, in their order
Keys(row) == [i \in 1..Len(row) |-> row[i].k]

\* the rows a github_data call in cache mode with the arguments of the
\* current call returns in this state
CacheModeRows ==
    IF ~cache[CallFile].exists THEN <<>>
    ELSE ProjectRows(call.entity,
                     github_data_from_cache(cache, call.endpoint, username).data,
                     call.fields, call.constants)

\* C4: after a live call, a call in cache mode for the same arguments returns
\* the rows the live call returned: same rows, same keys in the same order,
\* same values
C4_CacheModeSameRows == LiveReturned => CacheModeRows = retval

\* C5: the records handed to cache_update are read back by
\* github_data_from_cache: as many, in the same order, with the same values
C5_CacheRoundTrip ==
    LiveReturned =>
        LET rd == github_data_from_cache(cache, call.endpoint, username)
        IN  ~rd.raised /\ SameRecords(rd.data, all_fields)

\* C6: a call in live mode fetches and writes the cache: when it has returned
\* the entry exists and holds the records of the fetch, none included
C6_LiveWritesCache ==
    datasource = "a" /\ pc # "idle" =>
        /\ pc \in {"fetching", "fetched", "returned"}
        /\ read_from = "a"
        /\ pc = "returned" =>
              /\ cache[CallFile].exists
              /\ Len(cache[CallFile].data) = Len(payload)
              /\ SameRecords(cache[CallFile].data,
                             cache_update_payload(payload, call.constants))

\* C7: in cache mode the call returns without prompt and without exception:
\* with an error message and no rows when the entry is missing, with the
\* projection of the cached records when it exists
C7_CacheMode ==
    datasource = "c" /\ pc # "idle" =>
        /\ pc = "returned"
        /\ prompted = ""
        /\ IF cache[CallFile].exists
           THEN /\ echoed = {}
                /\ all_fields = cache[CallFile].data
                /\ retval = ProjectRows(call.entity, cache[CallFile].data,
                                        call.fields, call.constants)
           ELSE /\ echoed = {ErrNoCache}
                /\ retval = <<>>

\* C7 witness: a call in cache mode found no entry
C7_Witness ==
    /\ datasource = "c"
    /\ pc = "returned"
    /\ ~cache[CallFile].exists
    /\ echoed = {ErrNoCache}

\* C8: in interactive mode a call ends as a live fetch with cache write, as
\* a read of an existing entry, or as exit; without an entry it ends as a
\* live fetch or as exit, whatever was typed
C8_InteractiveOutcomes ==
    datasource = "p" /\ pc \in {"returned", "exited", "raised"} =>
        /\ \/ pc = "returned" /\ read_from = "a" /\ pages # <<>>
           \/ pc = "returned" /\ read_from = "c" /\ cache[CallFile].exists
           \/ pc = "exited"
        /\ prompted = PromptNoCache => read_from \in {"a", "x"}

\* a field name of an exact list that is absent from a record
Absent(record, parts) ==
    /\ ~HasKey(call.constants, Join(parts, "."))
    /\ IF Len(parts) > 1
       THEN Dotted(record, parts) = None
       ELSE ~HasKey(record, parts[1])

\* C9: with an exact list, a requested field that a record lacks is in the
\* record's row with the value None, and is recorded as unknown field
C9_AbsentFieldIsNone ==
    pc = "returned" /\ ExactList =>
        \A n \in 1..Len(all_fields) : \A i \in 1..Len(CallFields) :
            Absent(all_fields[n], CallFields[i]) =>
                /\ HasKey(retval[n], Join(CallFields[i], "_"))
                /\ Get(retval[n], Join(CallFields[i], "_")) = None
                /\ unknownfieldname # <<>>

\* C10: with an exact list, every row has the requested field names as its
\* keys, in the requested order, dots replaced by underscores
C10_RowsShareKeys ==
    pc = "returned" /\ call.fields # <<>> /\ ExactList =>
        \A n \in 1..Len(retval) :
            Keys(retval[n]) =
                [i \in 1..Len(call.fields) |-> Join(call.fields[i], "_")]

\* how often a row occurs in a list of rows
Count(rows, row) == Cardinality({n \in 1..Len(rows) : rows[n] = row})

\* the rows are in non-decreasing order of their sort keys
InKeyOrder(rows) ==
    \A n \in 1..Len(rows) - 1 :
        StrRank(data_sort(rows[n])) <= StrRank(data_sort(rows[n + 1]))

\* C11: the sort of the rows github_data returned never raises, and gives a
\* permutation of the projections of all records, one row per record, in
\* non-decreasing order of the lower-case string of each row's first value
C11_SortedAssembly ==
    pc = "returned" /\ sort_status # "no" =>
        /\ sort_status = "done"
        /\ Len(sorted_data) = Len(all_fields)
        /\ \A n \in 1..Len(all_fields) :
               LET row == data_fields(call.entity, all_fields[n], call.fields,
                                      call.constants, <<>>).values
               IN  Count(sorted_data, row) = Count(retval, row)
        /\ InKeyOrder(sorted_data)

\* C12: with an exact list the sort key of every row is the value of the
\* first requested field: the first key of every row is that field's name,
\* whichever field is put first, and the rows are in the order of its values
C12_SortKeyIsFirstField ==
    pc = "returned" /\ sort_status # "no" /\ ExactList =>
        /\ sort_status = "done"
        /\ \A n \in 1..Len(sorted_data) :
               Keys(sorted_data[n])[1] = Join(CallFields[1], "_")
        /\ InKeyOrder(sorted_data)

\* the set of the keys of a dict
KeySet(d) == {d[i].k : i \in 1..Len(d)}

\* the wildcard of the current call ("" with an exact list)
CallMode == IF ExactList THEN "" ELSE Join(CallFields[1], ".")

\* C13: for every record, the keys of its 'urls' row and the keys of its
\* 'nourls' row (no constants given) are disjoint and are together the keys
\* of the record; the 'urls' row has the keys that end in 'url'
C13_WildcardPartition ==
    pc = "returned" =>
        \A n \in 1..Len(all_fields) :
            LET rec == all_fields[n]
                urls == data_fields(call.entity, rec, << <<"urls">> >>, <<>>,
                                    <<>>).values
                nourls == data_fields(call.entity, rec, << <<"nourls">> >>,
                                      <<>>, <<>>).values
            IN  /\ KeySet(urls) \cap KeySet(nourls) = {}
                /\ KeySet(urls) \cup KeySet(nourls) = KeySet(rec)
                /\ \A k \in KeySet(rec) : k \in KeySet(urls) <=> EndsWithUrl(k)

\* C13 witness: a record with keys of both kinds has been projected
C13_Witness ==
    /\ pc = "returned"
    /\ \E n \in 1..Len(all_fields) :
           /\ \E k \in KeySet(all_fields[n]) : EndsWithUrl(k)
           /\ \E k \in KeySet(all_fields[n]) : ~EndsWithUrl(k)

\* C14: in 'nourls' mode the row has every key of the record that does not
\* end in 'url'; a nested object is there with exactly its own pairs whose
\* key does not end in 'url', any other value as it is in the record
C14_NoUrlsRow ==
    pc = "returned" /\ CallMode = "nourls" =>
        \A n \in 1..Len(all_fields) : \A i \in 1..Len(all_fields[n]) :
            LET key == all_fields[n][i].k
                val == all_fields[n][i].v
            IN  ~EndsWithUrl(key) =>
                    /\ HasKey(retval[n], key)
                    /\ IF val.kind = "obj"
                       THEN LET got == Get(retval[n], key)
                            IN  /\ got.kind = "obj"
                                /\ \A j \in 1..Len(got.o) :
                                       \E m \in 1..Len(val.o) :
                                           got.o[j] = val.o[m]
                                /\ \A m \in 1..Len(val.o) :
                                       (\E j \in 1..Len(got.o) :
                                            got.o[j] = val.o[m])
                                       <=> ~EndsWithUrl(val.o[m].k)
                                /\ Len(got.o) <= Len(val.o)
                       ELSE Get(retval[n], key) = val

\* C14 witness: a record with a nested object that has a URL key has been
\* projected in 'nourls' mode
C14_Witness ==
    /\ pc = "returned"
    /\ CallMode = "nourls"
    /\ \E n \in 1..Len(all_fields) : \E i \in 1..Len(all_fields[n]) :
           /\ all_fields[n][i].v.kind = "obj"
           /\ \E m \in 1..Len(all_fields[n][i].v.o) :
                  EndsWithUrl(all_fields[n][i].v.o[m].k)

C16_PrivateIsString ==
    pc = "returned" =>
        \A n \in 1..Len(retval) :
            HasKey(retval[n], "private") /\ HasKey(all_fields[n], "private")
            /\ ~HasKey(call.constants, "private") =>
                Get(retval[n], "private") =
                    IF Get(all_fields[n], "private") = JBool("true")
                    THEN JStr("private") ELSE JStr("public")

\* dotted names: the parent an object with and without the child, a string,
\* null, absent
DottedNames ==
    { <<"owner", "login">>, <<"owner", "id">>, <<"name", "login">>,
      <<"type", "login">> }

\* C17: a dotted name parent.child gives the row the key parent_child, with
\* record[parent][child] when record[parent] is an object that has child and
\* None in every other case
C17_DottedField ==
    pc = "returned" =>
        \A n \in 1..Len(all_fields) : \A parts \in DottedNames :
            LET rec == all_fields[n]
                row == data_fields(call.entity, rec, <<parts>>, <<>>,
                                   <<>>).values
                has == /\ \E i \in 1..Len(rec) :
                              rec[i].k = parts[1] /\ rec[i].v.kind = "obj"
                       /\ \E p \in {Get(rec, parts[1]).o[j] :
                                       j \in 1..Len(Get(rec, parts[1]).o)} :
                              p.k = parts[2]
            IN  /\ Keys(row) = <<Join(parts, "_")>>
                /\ row[1].v =
                      IF has THEN JStr(GetS(Get(rec, parts[1]).o, parts[2]))
                      ELSE None
                /\ ExactList /\ parts \in {CallFields[i] :
                                                i \in 1..Len(CallFields)}
                      => /\ HasKey(retval[n], Join(parts, "_"))
                         /\ Get(retval[n], Join(parts, "_")) = row[1].v

\* C17 witness: a call with a dotted name has projected a record whose parent
\* is an object and a record whose parent is null
C17_Witness ==
    /\ pc = "returned"
    /\ ExactList
    /\ <<"owner", "login">> \in {CallFields[i] : i \in 1..Len(CallFields)}
    /\ \E n \in 1..Len(retval) : Get(retval[n], "owner_login") = JStr("o")
    /\ \E n \in 1..Len(retval) :
           /\ HasKey(all_fields[n], "owner")
           /\ Get(all_fields[n], "owner") = None
           /\ Get(retval[n], "owner_login") = None

PathOnly(endpoint) ==
    IF \E i \in 1..Len(endpoint) : endpoint[i] = "?"
    THEN SubSeq(endpoint, 1,
             (CHOOSE i \in 1..Len(endpoint) : endpoint[i] = "?") - 1)
    ELSE endpoint

\* C19 as stated: the endpoints with the path of the call's endpoint, with
\* whatever query string, have the cache file of the call
C19_QueryStripped ==
    pc # "idle" =>
        \A r \in KeyRequests :
            PathOnly(r.endpoint) = PathOnly(call.endpoint) =>
                cache_filename(r.endpoint, username) = CallFile

\* C19 amended: the query string is part of the file name, so an endpoint
\* with a query string and its path without one have different cache files;
\* the records of all pages of a fetch are in the one file of the endpoint
\* the call was given
C19_QueryKept ==
    /\ pc # "idle" =>
           \A r \in KeyRequests :
               /\ PathOnly(r.endpoint) = PathOnly(call.endpoint)
               /\ r.endpoint # call.endpoint
               /\ PathOnly(call.endpoint) \in {r.endpoint, call.endpoint}
               => cache_filename(r.endpoint, username) # CallFile
    /\ LiveReturned /\ payload # <<>> =>
           /\ cache[CallFile].exists
           /\ Len(cache[CallFile].data) = SumCounts(pages)

\* C19 witness: the members without 2FA were fetched in two pages with
\* records, and the entry of all members is another file
C19_Witness ==
    /\ LiveReturned
    /\ call.endpoint = Members2faRequest.endpoint
    /\ Len(pages) >= 2
    /\ \A i \in 1..2 : pages[i].body # <<>>
    /\ cache[cache_filename(MembersRequest.endpoint, username)].exists

\* C20: the records a call reads from the cache were written by a call of
\* the same identity for the same endpoint: each is a record the server
\* serves for the call's endpoint, with the call's constants
C20_NoCrossRead ==
    pc = "returned" /\ read_from = "c" =>
        \A n \in 1..Len(all_fields) :
            \E body \in Bodies(call.endpoint) : \E m \in 1..Len(body) :
                AsMap(all_fields[n])
                    = AsMap(DictUpdate(body[m], call.constants))

\* the value of the page parameter of a URL
PageParam(url) == url[(CHOOSE i \in 1..Len(url) : url[i] = "page") + 2]

\* the slots of a link type in the result of pagination
SlotURL(pagelinks, linktype) ==
    CASE linktype = "first" -> pagelinks.firstURL
      [] linktype = "prev" -> pagelinks.prevURL
      [] linktype = "next" -> pagelinks.nextURL
      [] linktype = "last" -> pagelinks.lastURL
SlotPage(pagelinks, linktype) ==
    CASE linktype = "first" -> pagelinks.firstpage
      [] linktype = "prev" -> pagelinks.prevpage
      [] linktype = "next" -> pagelinks.nextpage
      [] linktype = "last" -> pagelinks.lastpage

\* the entries of a response's Link header that are of the form
\* '<url>; rel="type"' with the given type
Entries(response, linktype) ==
    { n \in 1..Len(response.link) :
        /\ response.link[n].bracketed
        /\ response.link[n].quoted
        /\ response.link[n].rel = linktype }

\* C21: for a Link header whose entries all have the form '<url>;
\* rel="type"', pagination returns for every type listed the URL and the
\* value of the URL's page parameter, for every type not listed None and 0
C21_PaginationSlots ==
    \A i \in 1..Len(pages) :
        LET response == pages[i]
            pagelinks == pagination(response)
        IN  /\ response.haslink
            /\ \A n \in 1..Len(response.link) :
                   response.link[n].bracketed /\ response.link[n].quoted
            => \A linktype \in {"first", "prev", "next", "last"} :
                   IF Entries(response, linktype) # {}
                   THEN \E n \in Entries(response, linktype) :
                            /\ SlotURL(pagelinks, linktype)
                                   = response.link[n].url
                            /\ SlotPage(pagelinks, linktype)
                                   = PageParam(response.link[n].url)
                   ELSE /\ SlotURL(pagelinks, linktype) = <<>>
                        /\ SlotPage(pagelinks, linktype) = "0"

\* C22: pagination does not raise; without a Link header it returns None
\* and 0 in all slots; for a header without an entry of the form '<url>;
\* rel="next"' it returns None and 0 for next, and the fetch stops after
\* that response
C22_PaginationDegrades ==
    \A i \in 1..Len(pages) :
        LET response == pages[i]
            pagelinks == pagination(response)
        IN  /\ ~response.haslink => pagelinks = NoLinks
            /\ Entries(response, "next") = {} =>
                   /\ pagelinks.nextURL = <<>>
                   /\ pagelinks.nextpage = "0"
                   /\ i = Len(pages)
                   /\ pc \notin {"fetching", "raised"}

\* the length of the text of a response: the brackets and one unit a record
ContentLength(response) == 2 + Len(response.body)

RECURSIVE SumLengths(_)
SumLengths(responses) ==
    IF responses = <<>> THEN 0
    ELSE ContentLength(Head(responses)) + SumLengths(Tail(responses))

\* C24: after n transport calls of a session tot_api_calls is n,
\* tot_api_bytes the sum of the lengths of the n responses, and
\* last_ratelimit and last_remaining are the header values of the last
\* response, or 999999 when it has no such headers
C24_SessionCounters ==
    /\ tot_api_calls = Len(pages)
    /\ tot_api_bytes = SumLengths(pages)
    /\ pages # <<>> =>
           LET last == pages[Len(pages)]
           IN  IF last.ratelimit.has
               THEN /\ last_ratelimit = last.ratelimit.limit
                    /\ last_remaining = last.ratelimit.remaining
               ELSE /\ last_ratelimit = 999999
                    /\ last_remaining = 999999

\* C25: auth_user is None without a username and the pair of username and
\* token otherwise; for a username without a stored token auth_config
\* prints an error and every request is sent without credentials
C25_UnknownUserUnauthenticated ==
    /\ username = "" => auth_user = <<>>
    /\ username # "" => auth_user = <<username, accesstoken>>
    /\ username # "" /\ access_token(username) = NoToken =>
           /\ ErrUnknownUser \in echoed
           /\ \A i \in 1..Len(requests) : requests[i].auth = <<>>

\* C23: a not-OK response adds no record and does not end the fetch by
\* itself: the loop goes on with the next URL of that response if it has
\* one and ends if not, and the records of the OK pages before and after it
\* stay in the result
C23_FailedPageSkipped ==
    [][pc = "fetching" /\ pages' # pages =>
          LET response == pages'[Len(pages')]
          IN  /\ pc' \in {"fetching", "fetched"}
              /\ pages' = Append(pages, response)
              /\ pc' = "fetching" <=> Entries(response, "next") # {}
              /\ pc' = "fetching" =>
                     \E n \in Entries(response, "next") :
                         page_endpoint' = response.link[n].url
              /\ ~response.ok => payload' = payload
              /\ response.ok => payload' = payload \o response.body]_vars

\* C23 witness: the first page failed, the fetch went on with its next URL
\* and returned the records of the second page
C23_Witness ==
    /\ LiveReturned
    /\ Len(pages) = 2
    /\ ~pages[1].ok
    /\ pages[2].ok
    /\ pages[2].body # <<>>
    /\ payload = pages[2].body
    /\ Len(all_fields) = Len(pages[2].body)

\* C23 witness: the second page failed and the records of the first page
\* were returned
C23_WitnessBefore ==
    /\ LiveReturned
    /\ Len(pages) = 2
    /\ pages[1].ok
    /\ pages[1].body # <<>>
    /\ ~pages[2].ok
    /\ Len(all_fields) = Len(pages[1].body)

\* a key that remove_github_urls is to keep
Kept(key) == ~endswith(key, <<"_", "u", "r", "l">>) /\ key # "url"

Entry(d) == {d[i] : i \in 1..Len(d)}

\* C26: remove_github_urls returns exactly the entries of its argument
\* whose key neither ends in '_url' nor is 'url', with their values; {} for
\* {} and for None; the argument stays as it is; and the result of the
\* result is the result
C26_RemoveGithubUrls ==
    /\ [](dict_out.pc = "returned" =>
            /\ Entry(dict_out.d) = {kv \in Entry(dict_in.d) : Kept(kv.k)}
            /\ Len(dict_out.d) = Cardinality(Entry(dict_out.d))
            /\ dict_in.none \/ dict_in.d = <<>> => dict_out.d = <<>>
            /\ remove_github_urls([none |-> FALSE, d |-> dict_out.d])
                   = dict_out.d)
    /\ [][dict_out.pc = "called" /\ dict_out'.pc = "returned" =>
              dict_in' = dict_in]_vars

\* C26 witness: of a dictionary with html_url, curl and an owner that has a
\* url of its own, curl and the whole owner were returned
C26_Witness ==
    /\ dict_out.pc = "returned"
    /\ ~dict_in.none
    /\ {dict_in.d[i].k : i \in 1..Len(dict_in.d)} = {"html_url", "curl", "owner"}
    /\ {dict_out.d[i].k : i \in 1..Len(dict_out.d)} = {"curl", "owner"}
    /\ \E i \in 1..Len(dict_out.d) : dict_out.d[i].v = UrlValue("owner")

\* the writers that write, and the texts the file can have
Writing == {w \in Writers : writers[w].data # <<>>}
Text(w) == dumps(writers[w].data)
RaceTexts ==
    {dumps(PrevEntry), <<>>}
    \cup {Text(w) : w \in Writing}
    \cup {WriteAt0(Text(p[1]), Text(p[2])) : p \in Writing \X Writing}

\* C30: the writes of two processes to one cache file are not atomic: from
\* a writer's open to its write the file is empty, after a write the file
\* starts with the text of that writer, whoever wrote before, and a reader
\* sees whatever text the file has at that moment
C30_CacheWritesRace ==
    /\ [](file.exists => file.text \in RaceTexts)
    /\ [](reader.pc \in {"returned", "raised"} => reader.text \in RaceTexts)
    /\ [][\A w \in Writers :
              /\ writers[w].pc = "fetched" /\ writers'[w].pc = "opened" =>
                     file'.exists /\ file'.text = <<>>
              /\ writers[w].pc = "opened" /\ writers'[w].pc = "done" =>
                     SubSeq(file'.text, 1, Len(Text(w))) = Text(w)
              /\ reader.pc = "found" /\ reader'.pc # "found" =>
                     reader'.text = file.text]_vars

\* C30 witness: both writers write, and the reader found the entry and read
\* a text that is neither the earlier entry nor the result of a writer
C30_Witness ==
    /\ Writing = Writers
    /\ reader.pc = "raised"
    /\ reader.text \notin {dumps(PrevEntry)} \cup {Text(w) : w \in Writers}

\* C30 witness: both writers are done and the entry is the result of
\* neither
C30_WitnessFinal ==
    /\ Writing = Writers
    /\ \A w \in Writers : writers[w].pc = "done"
    /\ file.text \notin {Text(w) : w \in Writers}

\* C27: when the operator answers the prompt with x the process ends there:
\* that call sends no request, changes no cache file, takes no records from
\* the cache and returns no rows, and nothing follows in that process
C27_AbortAtPrompt ==
    /\ [][pc = "idle" /\ prompted' # "" /\ read_from' = "x" =>
              /\ pc' = "exited"
              /\ requests' = requests
              /\ counters' = counters
              /\ cache' = cache
              /\ pages' = <<>>
              /\ all_fields' = <<>>
              /\ retval' = <<>>]_vars
    /\ [][pc = "exited" =>
              pc' = "idle" /\ cache' = cache /\ requests' = <<>>]_vars
    /\ [](pc = "exited" => /\ prompted # ""
                           /\ read_from = "x"
                           /\ requests = <<>>
                           /\ sort_status = "no")

\* C27 witness: the operator answered x when a cache entry was offered
C27_Witness ==
    /\ pc = "exited"
    /\ prompted = PromptCached
    /\ read_from = "x"
    /\ cache[CallFile].exists
    /\ cache[CallFile].data # <<>>
    /\ retval = <<>>

\* C28: the requests of a fetch go out one after the other, one for each
\* response: the first to the base URL followed by the endpoint of the
\* call, every later one to the next URL of the response before it, as it
\* stands in the header
C28_SequentialRequests ==
    /\ Len(requests) = Len(pages)
    /\ requests # <<>> => requests[1].url = <<BaseURL>> \o call.endpoint
    /\ \A i \in 2..Len(requests) :
           \E n \in Entries(pages[i - 1], "next") :
               requests[i].url = pages[i - 1].link[n].url
    /\ pc = "fetching" /\ pages # <<>> =>
           \E n \in Entries(pages[Len(pages)], "next") :
               page_endpoint = pages[Len(pages)].link[n].url

\* C28 witness: a fetch of two pages has returned, the second request went
\* to the next URL of the first response
C28_Witness ==
    /\ LiveReturned
    /\ Len(requests) = 2
    /\ requests[1].url = <<BaseURL>> \o call.endpoint
    /\ requests[2].url # requests[1].url
    /\ requests[2].url[1] = BaseURL
    /\ requests[2].url[2] = "/"

\* C29: a call in cache mode sends no request and leaves the counters and
\* every cache file as they are; the entry of a user and an endpoint
\* changes only at the end of a live fetch of that endpoint by that user
C29_CacheIndependent ==
    /\ [][pc = "idle" /\ datasource' = "c" =>
              /\ requests' = requests
              /\ counters' = counters
              /\ cache' = cache
              /\ pc' = "returned"]_vars
    /\ [][\A r \in Requests \cup KeyRequests, u \in Usernames :
              LET f == cache_filename(r.endpoint, u)
              IN  cache'[f] # cache[f] =>
                      /\ pc = "fetched"
                      /\ read_from = "a"
                      /\ username = u
                      /\ call.endpoint = r.endpoint]_vars

====
